---- MODULE Spec2Model ----
(***************************************************************************)
(* Atucha II visualisation: the reactor-core lattice generator             *)
(* (components/reactor-core.tsx), the capability-driven quality selection  *)
(* and the derived rendering parameters (app/page.tsx), and the view       *)
(* switch that mounts the reactor core (components/nuclear-plant.tsx).     *)
(*                                                                         *)
(* Numbers.  The code computes in IEEE doubles; the model is fixed point:  *)
(*   - lattice coordinates are counted in half spacings (0.325), so that   *)
(*     (col - (numTubes - 1) / 2) * 0.65 is the integer                    *)
(*     2 * col - (numTubes - 1);                                           *)
(*   - distances are in thousandths, rounded down;                         *)
(*   - temperatures are in thousandths of a degree;                        *)
(*   - flux is in units of 1 / 15000 (FluxOne is the flux 1.0);            *)
(*   - shadow map sizes are in half texels, so that maxTextureSize / 2 is  *)
(*     the integer maxTextureSize.                                         *)
(***************************************************************************)
EXTENDS Integers, Sequences, FiniteSets

VARIABLES
    isClient,           \* page.tsx useState(false)
    hasError,           \* page.tsx useState(false)
    isMobile,           \* host: navigator.userAgent matches the mobile pattern
    webglCapabilities,  \* page.tsx useState(null): null or a capabilities record
    qualityLevel,       \* store: 1 LOW, 2 MEDIUM, 3 HIGH, 4 ULTRA
    override,           \* the level the user chose by hand, NoOverride when there is none
    currentView,        \* store: which part of the plant is shown
    latticeParams,      \* the literals of the lattice generator, as parameters
    coreMounted,        \* whether a ReactorCore instance is mounted
    pressureTubes,      \* ReactorCore useMemo: the tube list of the mounted core
    controlRods,        \* ReactorCore useMemo: the rod list of the mounted core
    firstLattice,       \* history: the lists of the first generation of this run
    lastEvent,          \* the handler that ran last
    devicePixelRatio,   \* host: window.devicePixelRatio, in hundredths
    innerWidth,         \* host: window.innerWidth
    enableShadows,      \* store: the user's shadow preference
    tour,               \* the tour controller's state, tour.active being tourActive
    cameraPose,         \* the camera pose the tour controller computed last
    tourLog,            \* history: what the ticks since the last start added up to
    isPlaying,          \* store: whether the animation plays
    clockElapsed,       \* state.clock.elapsedTime, in units of pi/4 seconds
    plantRotation,      \* NuclearPlant group rotation.y, in units of 0.05 * pi/4 radians
    coreScale,          \* ReactorCore group scale, in millionths; 0 when no core is mounted
    emissive            \* emissiveIntensity of the registered meshes, in millionths

vars == <<isClient, hasError, isMobile, webglCapabilities, qualityLevel, override,
          currentView, latticeParams, coreMounted, pressureTubes, controlRods,
          firstLattice, lastEvent, devicePixelRatio, innerWidth, enableShadows,
          tour, cameraPose, tourLog, isPlaying, clockElapsed, plantRotation,
          coreScale, emissive>>

hostVars == <<devicePixelRatio, innerWidth>>
tourVars == <<tour, cameraPose, tourLog>>
frameVars == <<isPlaying, clockElapsed, plantRotation, coreScale, emissive>>
pageVars == <<isClient, hasError, isMobile, webglCapabilities, qualityLevel, override,
              currentView, enableShadows>>
latticeVars == <<latticeParams, coreMounted, pressureTubes, controlRods, firstLattice>>

\* null, as a value that compares with records
null == [null |-> TRUE]

\* no quality level chosen by hand
NoOverride == 0

Min(a, b) == IF a <= b THEN a ELSE b
Max(a, b) == IF a >= b THEN a ELSE b

(***************************************************************************)
(* Bounds of the generator's input space.                                  *)
(***************************************************************************)
MaxSmallTarget == 14
MaxStride == 3
MaxSmallCap == 3

(***************************************************************************)
(* reactor-core.tsx: the lattice generator.                                *)
(***************************************************************************)
rows == 27

tubesPerRow ==
    <<1, 3, 5, 7, 9, 11, 13, 15, 17, 19, 21, 23, 25, 27, 29, 29, 29, 27, 25, 23,
      21, 19, 17, 15, 13, 11, 9, 7, 5, 3, 1>>

TargetTubeCount == 451
RodStride == 12
MaxRodCount == 37

HalfSpacing == 325
baseTemperature == 280000
maxRadius == 15000
FluxOne == 15000
gradient == 12

RECURSIVE SqrtBetween(_, _, _)
SqrtBetween(n, lo, hi) ==
    IF lo >= hi THEN lo
    ELSE LET mid == (lo + hi + 1) \div 2
         IN  IF mid * mid <= n THEN SqrtBetween(n, mid, hi)
             ELSE SqrtBetween(n, lo, mid - 1)

\* Math.sqrt, rounded down
Sqrt(n) == SqrtBetween(n, 0, Min(n, 46340))

\* tubesPerRow[row] || 0
numTubesOf(row) == IF row + 1 <= Len(tubesPerRow) THEN tubesPerRow[row + 1] ELSE 0

\* Math.sqrt(colOffset * colOffset + rowOffset * rowOffset), in thousandths
distanceFromCenter(x, z) == Sqrt(HalfSpacing * HalfSpacing * (x * x + z * z))

\* 280 + (15 - distanceFromCenter) * 12
temperatureAt(d) == baseTemperature + (maxRadius - d) * gradient

\* variant of fluxAt: the distance term added instead of subtracted
fluxAtBad(d) == FluxOne + d

\* Math.max(0, 1 - distanceFromCenter / 15)
fluxAt(d) == Max(0, FluxOne - d)

\* the body of the inner loop: the node pushed for (row, col) with id tubeId
tubeAt(row, col, tubeId) ==
    LET numTubes == numTubesOf(row)
        x == 2 * col - (numTubes - 1)
        z == 2 * row - (rows - 1)
        d == distanceFromCenter(x, z)
    IN  [position |-> [x |-> x, z |-> z],
         id |-> tubeId,
         temperature |-> temperatureAt(d),
         flux |-> fluxAt(d)]

\* the two nested loops, from row on, the next id being tubeId
RECURSIVE tubesFrom(_, _)
tubesFrom(row, tubeId) ==
    IF row >= rows THEN <<>>
    ELSE [c \in 1 .. numTubesOf(row) |-> tubeAt(row, c - 1, tubeId + c - 1)]
         \o tubesFrom(row + 1, tubeId + numTubesOf(row))

\* the list the loops leave in tubes, before the slice
allTubes == tubesFrom(0, 0)

\* Array.prototype.slice(0, end)
slice(s, end) ==
    LET e == IF end < 0 THEN Max(Len(s) + end, 0) ELSE Min(end, Len(s))
    IN  SubSeq(s, 1, e)

\* variant of pressureTubesOf: half the tubes at the LOW quality level
pressureTubesByQuality(targetTubeCount) ==
    slice(allTubes, IF qualityLevel = 1 THEN targetTubeCount \div 2 ELSE targetTubeCount)

\* variant of pressureTubesOf: the excess dropped from the head
pressureTubesFromTail(targetTubeCount) ==
    SubSeq(allTubes, Max(Len(allTubes) - targetTubeCount, 0) + 1, Len(allTubes))

\* the pressureTubes memo, its literal 451 being targetTubeCount
pressureTubesOf(targetTubeCount) == slice(allTubes, targetTubeCount)

\* Array.prototype.filter((_, index) => index % rodStride === 0), over the
\* indices lo .. hi, the kept elements in index order
RECURSIVE everyNthIn(_, _, _, _)
everyNthIn(tubes, rodStride, lo, hi) ==
    IF lo > hi THEN <<>>
    ELSE IF lo = hi
    THEN (IF lo % rodStride = 0 THEN <<tubes[lo + 1]>> ELSE <<>>)
    ELSE LET mid == (lo + hi) \div 2
         IN  everyNthIn(tubes, rodStride, lo, mid)
             \o everyNthIn(tubes, rodStride, mid + 1, hi)

everyNth(tubes, rodStride) == everyNthIn(tubes, rodStride, 0, Len(tubes) - 1)

\* variant of controlRodsOf: the cap left out
controlRodsUncapped(tubes, rodStride, maxRodCount) ==
    IF Len(tubes) = 0 THEN <<>> ELSE everyNth(tubes, rodStride)

\* the controlRods memo, its literals 12 and 37 being rodStride and maxRodCount
controlRodsOf(tubes, rodStride, maxRodCount) ==
    IF Len(tubes) = 0 THEN <<>>
    ELSE slice(everyNth(tubes, rodStride), maxRodCount)


(***************************************************************************)
(* page.tsx: the quality level chosen from the detected capabilities and   *)
(* the rendering parameters derived from it.  Pixel ratios are in          *)
(* hundredths.                                                             *)
(***************************************************************************)
QualityLevels == 1 .. 4
DefaultQualityLevel == 3

\* the maxTextureSize values a detection may report
TextureSizes == {-2, 0, 1024, 2048, 3000, 4096, 8192}

DepthTexture == "WEBGL_depth_texture"

\* interface WebGLCapabilities, the fields page.tsx reads: the snapshots that
\* differ in what the quality level, the shadow map size and the choice between
\* the scene and the fallback view depend on
Capabilities ==
    [webgl : BOOLEAN,
     maxTextureSize : TextureSizes,
     maxRenderbufferSize : {1024},
     extensions : {{DepthTexture}}]

\* the snapshots that differ in what antialiasing and shadows depend on
RenderCapabilities ==
    [webgl : BOOLEAN,
     maxTextureSize : {1024, 8192},
     maxRenderbufferSize : {0, 512, 1023, 1024, 4096},
     extensions : SUBSET {DepthTexture}]

\* the values of window.devicePixelRatio, in hundredths
DevicePixelRatios == {50, 100, 150, 200, 300}

\* variant of detectedLevel: the thresholds compared with <=
detectedLevelInclusive(capabilities, mobile, level) ==
    IF mobile \/ capabilities.maxTextureSize <= 2048 THEN 1
    ELSE IF capabilities.maxTextureSize <= 4096 THEN 2
    ELSE level

\* the branches of handleCapabilitiesDetected: the level the store holds afterwards
detectedLevel(capabilities, mobile, level) ==
    IF mobile \/ capabilities.maxTextureSize < 2048 THEN 1
    ELSE IF capabilities.maxTextureSize < 4096 THEN 2
    ELSE level

\* variant of shadowMapSizeOf: maxTextureSize not halved
shadowMapSizeNotHalved(level, capabilities) ==
    IF capabilities # null /\ capabilities.maxTextureSize # 0
    THEN Min(2 * (IF level >= 3 THEN 2048 ELSE IF level >= 2 THEN 1024 ELSE 512),
             2 * capabilities.maxTextureSize)
    ELSE 2 * 512

\* variant of shadowMapSizeOf: the tiers compared with > instead of >=
shadowMapSizeStrictTiers(level, capabilities) ==
    IF capabilities # null /\ capabilities.maxTextureSize # 0
    THEN Min(2 * (IF level > 3 THEN 2048 ELSE IF level > 2 THEN 1024 ELSE 512),
             capabilities.maxTextureSize)
    ELSE 2 * 512

\* const shadowMapSize = ..., in half texels, for a level and a capabilities value
shadowMapSizeOf(level, capabilities) ==
    IF capabilities # null /\ capabilities.maxTextureSize # 0
    THEN Min(2 * (IF level >= 3 THEN 2048 ELSE IF level >= 2 THEN 1024 ELSE 512),
             capabilities.maxTextureSize)
    ELSE 2 * 512

\* the shadow map size of the current render
shadowMapSize == shadowMapSizeOf(qualityLevel, webglCapabilities)

\* variant of pixelRatioOf: the cap of 2 at every level
pixelRatioAlwaysTwo(client, level, ratio) ==
    IF client THEN Min(200, IF ratio = 0 THEN 100 ELSE ratio) ELSE 100

\* variant of pixelRatioOf: the two caps swapped
pixelRatioSwapped(client, level, ratio) ==
    IF client
    THEN Min(IF level >= 4 THEN 100 ELSE 200, IF ratio = 0 THEN 100 ELSE ratio)
    ELSE 100

\* const pixelRatio = ..., for the isClient flag, a level and a
\* window.devicePixelRatio (0 standing for every falsy value)
pixelRatioOf(client, level, ratio) ==
    IF client
    THEN Min(IF level >= 4 THEN 200 ELSE 100, IF ratio = 0 THEN 100 ELSE ratio)
    ELSE 100

\* the dpr of the Canvas in the current render
pixelRatio == pixelRatioOf(isClient, qualityLevel, devicePixelRatio)

\* variant of antialiasOf: antialiasing from HIGH on
antialiasFromHigh(level, capabilities) ==
    level >= 3 /\ capabilities # null /\ capabilities.maxRenderbufferSize >= 1024

\* gl.antialias of the Canvas: undefined >= 1024 is false
antialiasOf(level, capabilities) ==
    level >= 2 /\ capabilities # null /\ capabilities.maxRenderbufferSize >= 1024

\* gl.antialias in the current render
antialias == antialiasOf(qualityLevel, webglCapabilities)

\* the shadows prop of the Canvas
canvasShadows(preference, capabilities) ==
    preference /\ capabilities # null /\ DepthTexture \in capabilities.extensions

\* castShadow of the key directionalLight
lightCastShadow(preference) == preference

(***************************************************************************)
(* Rendering: which components are mounted after a state change.           *)
(***************************************************************************)
Views == {"overview", "reactor", "control-room"}
DefaultView == "overview"

\* variant of presentationOf: a missing snapshot not taken for unsupported
presentationUnguarded(client, error, capabilities) ==
    IF ~client \/ error THEN "loading"
    ELSE IF capabilities # null /\ ~capabilities.webgl THEN "fallback"
    ELSE "scene"

\* page.tsx: what the page returns: the LoadingScreen, the FallbackView, or the
\* branch that renders the header, the Canvas and the panels
presentationOf(client, error, capabilities) ==
    IF ~client \/ error THEN "loading"
    ELSE IF capabilities = null \/ ~capabilities.webgl THEN "fallback"
    ELSE "scene"

\* what the page shows in the current render
presentation == presentationOf(isClient, hasError, webglCapabilities)

\* page.tsx: the branch that renders the header, the Canvas and the panels
sceneShown(client, error, capabilities) ==
    client /\ ~error /\ capabilities # null /\ capabilities.webgl

\* nuclear-plant.tsx: NuclearPlant renders a ReactorCore
coreShown(client, error, capabilities, view) ==
    sceneShown(client, error, capabilities) /\ view = "reactor"

MaxGenerations == 2

\* React commits the render that follows a state change: a ReactorCore that
\* appears runs its two useMemo factories, one that stays keeps its memo
\* (the dependency lists are [] and [pressureTubes]), one that goes loses it.
\* level is the quality level of the state the render happens in.
Reconcile(shown, level) ==
    IF shown /\ ~coreMounted
    THEN LET tubes == pressureTubesOf(latticeParams.targetTubeCount)
             rods == controlRodsOf(tubes, latticeParams.rodStride,
                                   latticeParams.maxRodCount)
         IN  /\ coreMounted' = TRUE
             /\ pressureTubes' = tubes
             /\ controlRods' = rods
             /\ firstLattice' =
                    IF firstLattice = null
                    THEN [pressureTubes |-> tubes, controlRods |-> rods,
                          qualityLevel |-> level, generations |-> 1]
                    ELSE [firstLattice EXCEPT
                              !.generations = Min(@ + 1, MaxGenerations)]
    ELSE IF ~shown
    THEN /\ coreMounted' = FALSE
         /\ pressureTubes' = <<>>
         /\ controlRods' = <<>>
         /\ UNCHANGED firstLattice
    ELSE UNCHANGED <<coreMounted, pressureTubes, controlRods, firstLattice>>

(***************************************************************************)
(* The guided tour, at rest.                                               *)
(***************************************************************************)
\* the camera of the Canvas and the target of the OrbitControls, one
\* coordinate standing for each vector
StartPose == [position |-> 50, target |-> 12]

\* TourState before any tour; startPose is the pose the first transition
\* interpolates from
NoTour == [currentIndex |-> 0, phase |-> "IDLE", elapsedInPhase |-> 0,
           active |-> FALSE, waypoints |-> <<>>, startPose |-> StartPose]

\* the history of the running tour: the seconds ticked since start, the
\* seconds by which ticks overshot a phase boundary, whether skip was used,
\* the indices taken by currentIndex, and the number of tours started
NoTourLog == [ticked |-> 0, dropped |-> 0, skipped |-> FALSE, visited |-> <<>>,
              tours |-> 0]

(***************************************************************************)
(* The handlers.                                                           *)
(***************************************************************************)
Init ==
    /\ isClient = FALSE
    /\ hasError = FALSE
    /\ isMobile \in BOOLEAN
    /\ webglCapabilities = null
    /\ qualityLevel = DefaultQualityLevel
    /\ override = NoOverride
    /\ currentView = DefaultView
    /\ latticeParams = [targetTubeCount |-> TargetTubeCount,
                        rodStride |-> RodStride,
                        maxRodCount |-> MaxRodCount]
    /\ coreMounted = FALSE
    /\ pressureTubes = <<>>
    /\ controlRods = <<>>
    /\ firstLattice = null
    /\ lastEvent = "init"
    /\ devicePixelRatio = 100
    /\ innerWidth = 1280
    /\ enableShadows = TRUE
    /\ tour = NoTour
    /\ cameraPose = StartPose
    /\ tourLog = NoTourLog
    /\ isPlaying = TRUE
    /\ clockElapsed = 0
    /\ plantRotation = 0
    /\ coreScale = 0
    /\ emissive = <<>>

\* the mount effect of the page; logThrows: console.log throws
ClientInit(logThrows) ==
    /\ ~isClient
    /\ isClient' = TRUE
    /\ hasError' = logThrows
    /\ lastEvent' = "clientInit"
    /\ Reconcile(coreShown(TRUE, logThrows, webglCapabilities, currentView),
                 qualityLevel)
    /\ UNCHANGED <<isMobile, webglCapabilities, qualityLevel, override, currentView,
                   latticeParams, hostVars, frameVars, enableShadows, tourVars>>

\* WebGLDetector, mounted once the page is past its loading screen, reports
handleCapabilitiesDetected(capabilities) ==
    /\ isClient /\ ~hasError
    /\ webglCapabilities' = capabilities
    /\ qualityLevel' = detectedLevel(capabilities, isMobile, qualityLevel)
    /\ lastEvent' = "detect"
    /\ Reconcile(coreShown(isClient, hasError, capabilities, currentView),
                 qualityLevel')
    /\ UNCHANGED <<isClient, hasError, isMobile, override, currentView, latticeParams,
                   hostVars, frameVars, enableShadows, tourVars>>

\* the user picks a quality level in PerformanceSettings
setQualityLevel(level) ==
    /\ sceneShown(isClient, hasError, webglCapabilities)
    /\ qualityLevel' = level
    /\ override' = level
    /\ lastEvent' = "setQualityLevel"
    /\ Reconcile(coreShown(isClient, hasError, webglCapabilities, currentView), level)
    /\ UNCHANGED <<isClient, hasError, isMobile, webglCapabilities, currentView,
                   latticeParams, hostVars, frameVars, enableShadows, tourVars>>

\* the user switches the view in the control panel
setCurrentView(view) ==
    /\ sceneShown(isClient, hasError, webglCapabilities)
    /\ currentView' = view
    /\ lastEvent' = "setCurrentView"
    /\ Reconcile(coreShown(isClient, hasError, webglCapabilities, view), qualityLevel)
    /\ UNCHANGED <<isClient, hasError, isMobile, webglCapabilities, qualityLevel,
                   override, latticeParams, hostVars, frameVars, enableShadows, tourVars>>

\* the user toggles the shadow preference in PerformanceSettings
toggleShadows ==
    /\ sceneShown(isClient, hasError, webglCapabilities)
    /\ enableShadows' = ~enableShadows
    /\ lastEvent' = "toggleShadows"
    /\ UNCHANGED <<isClient, hasError, isMobile, webglCapabilities, qualityLevel,
                   override, currentView, latticeVars, hostVars, frameVars, tourVars>>

Next ==
    \/ \E logThrows \in BOOLEAN : ClientInit(logThrows)
    \/ \E capabilities \in Capabilities : handleCapabilitiesDetected(capabilities)
    \/ \E level \in QualityLevels : setQualityLevel(level)
    \/ \E view \in Views : setCurrentView(view)

Spec == Init /\ [][Next]_vars

(***************************************************************************)
(* The generator over its input space: the page is up with the scene       *)
(* shown, the three literals of the generator are drawn from sets, and     *)
(* switching the view to the reactor runs the generator.                   *)
(***************************************************************************)
RECURSIVE SumFrom(_, _)
SumFrom(s, i) == IF i > Len(s) THEN 0 ELSE s[i] + SumFrom(s, i + 1)

\* the number of entries of the per-row table, over all its rows
ProfileSum == SumFrom(tubesPerRow, 1)

Targets == (0 .. MaxSmallTarget) \cup {TargetTubeCount}
           \cup ((Len(allTubes) - 1) .. (ProfileSum + 1))
Strides == (1 .. MaxStride) \cup {RodStride}
RodCaps == (0 .. MaxSmallCap) \cup {MaxRodCount, ProfileSum + 1}

InitGen ==
    /\ isClient = TRUE
    /\ hasError = FALSE
    /\ isMobile = FALSE
    /\ webglCapabilities = [webgl |-> TRUE, maxTextureSize |-> 8192,
                            maxRenderbufferSize |-> 1024,
                            extensions |-> {DepthTexture}]
    /\ qualityLevel = DefaultQualityLevel
    /\ override = NoOverride
    /\ currentView = DefaultView
    /\ latticeParams \in [targetTubeCount : Targets,
                          rodStride : Strides,
                          maxRodCount : RodCaps]
    /\ coreMounted = FALSE
    /\ pressureTubes = <<>>
    /\ controlRods = <<>>
    /\ firstLattice = null
    /\ lastEvent = "init"
    /\ devicePixelRatio = 100
    /\ innerWidth = 1280
    /\ enableShadows = TRUE
    /\ tour = NoTour
    /\ cameraPose = StartPose
    /\ tourLog = NoTourLog
    /\ isPlaying = TRUE
    /\ clockElapsed = 0
    /\ plantRotation = 0
    /\ coreScale = 0
    /\ emissive = <<>>

NextGen == \E view \in Views : setCurrentView(view)

SpecGen == InitGen /\ [][NextGen]_vars

(***************************************************************************)
(* The rendering parameters over the hosts: the device pixel ratio is      *)
(* drawn from a set, detections report snapshots that differ in            *)
(* maxRenderbufferSize and in the extensions, and the user changes the     *)
(* quality level and the shadow preference.  The view stays the default    *)
(* one, so no reactor core is mounted.                                     *)
(***************************************************************************)
InitRender ==
    /\ isClient = FALSE
    /\ hasError = FALSE
    /\ isMobile \in BOOLEAN
    /\ webglCapabilities = null
    /\ qualityLevel = DefaultQualityLevel
    /\ override = NoOverride
    /\ currentView = DefaultView
    /\ latticeParams = [targetTubeCount |-> TargetTubeCount,
                        rodStride |-> RodStride,
                        maxRodCount |-> MaxRodCount]
    /\ coreMounted = FALSE
    /\ pressureTubes = <<>>
    /\ controlRods = <<>>
    /\ firstLattice = null
    /\ lastEvent = "init"
    /\ devicePixelRatio \in DevicePixelRatios
    /\ innerWidth = 1280
    /\ enableShadows = TRUE
    /\ tour = NoTour
    /\ cameraPose = StartPose
    /\ tourLog = NoTourLog
    /\ isPlaying = TRUE
    /\ clockElapsed = 0
    /\ plantRotation = 0
    /\ coreScale = 0
    /\ emissive = <<>>

NextRender ==
    \/ \E logThrows \in BOOLEAN : ClientInit(logThrows)
    \/ \E capabilities \in RenderCapabilities : handleCapabilitiesDetected(capabilities)
    \/ \E level \in QualityLevels : setQualityLevel(level)
    \/ toggleShadows

SpecRender == InitRender /\ [][NextRender]_vars

(***************************************************************************)
(* The guided tour.  Time is in whole units; a pose has one coordinate for *)
(* the camera position and one for its target.                             *)
(***************************************************************************)
\* OrbitControls enabled, ignoring the tour
orbitControlsEnabledDuringTour(tourActive, width) == width >= 768

\* OrbitControls enabled, the test of the tour inverted
orbitControlsEnabledInverted(tourActive, width) == tourActive /\ width >= 768

\* OrbitControls enabled (window is defined wherever the Canvas is mounted)
orbitControlsEnabled(tourActive, width) == ~tourActive /\ width >= 768

isFreeOrbitEnabled == orbitControlsEnabled(tour.active, innerWidth)

\* window.innerWidth of the hosts
InnerWidths == {375, 767, 768, 1280}

Reactor == [name |-> "reactor", cameraPosition |-> 20, cameraTarget |-> 5,
            holdDurationSeconds |-> 2, transitionDurationSeconds |-> 2]
Turbine == [name |-> "turbine", cameraPosition |-> 80, cameraTarget |-> 0,
            holdDurationSeconds |-> 1, transitionDurationSeconds |-> 3]
Dome == [name |-> "dome", cameraPosition |-> 35, cameraTarget |-> 30,
         holdDurationSeconds |-> 3, transitionDurationSeconds |-> 2]

\* the lists start is called with, the empty one included
WaypointLists ==
    {<<>>, <<Dome>>, <<Reactor, Turbine>>, <<Reactor, Turbine, Dome>>,
     <<Dome, Reactor, Turbine>>}

\* tours started in one run
MaxTours == 1

\* deltaSeconds of the ticks: negative, zero, a frame, and a long stall
Deltas == {-1, 0, 1, 2, 5}

poseOf(waypoint) ==
    [position |-> waypoint.cameraPosition, target |-> waypoint.cameraTarget]

\* the waypoint at currentIndex (sequences count from 1)
waypointAt(t) == t.waypoints[t.currentIndex + 1]

\* the pose a transition starts from: the previous waypoint, or the pose at
\* start
previousPose(t) ==
    IF t.currentIndex = 0 THEN t.startPose ELSE poseOf(t.waypoints[t.currentIndex])

\* ease-in-out of elapsed / duration, in thousandths
ease(elapsed, duration) ==
    IF 2 * elapsed < duration
    THEN (2000 * elapsed * elapsed) \div (duration * duration)
    ELSE 1000 - (2000 * (duration - elapsed) * (duration - elapsed))
                    \div (duration * duration)

interpolate(from, to, elapsed, duration) ==
    LET e == ease(elapsed, duration)
    IN  [position |-> from.position + ((to.position - from.position) * e) \div 1000,
         target |-> from.target + ((to.target - from.target) * e) \div 1000]

\* HOLDING's expiry that starts over instead of finishing
advanceWrapping(t) ==
    [t EXCEPT !.currentIndex = (@ + 1) % Len(t.waypoints),
              !.phase = "TRANSITIONING", !.elapsedInPhase = 0]

\* HOLDING's expiry: FINISHED after the last waypoint, else on to the next
advance(t) ==
    IF t.currentIndex = Len(t.waypoints) - 1
    THEN [t EXCEPT !.phase = "FINISHED", !.active = FALSE]
    ELSE [t EXCEPT !.currentIndex = @ + 1, !.phase = "TRANSITIONING",
                   !.elapsedInPhase = 0]

\* a start that takes an empty list for a request to end the tour
startedOrCleared(t, waypoints, pose) ==
    IF waypoints = <<>> THEN [t EXCEPT !.phase = "IDLE", !.active = FALSE]
    ELSE [currentIndex |-> 0,
          phase |-> IF Len(waypoints) = 1 THEN "HOLDING" ELSE "TRANSITIONING",
          elapsedInPhase |-> 0, active |-> TRUE, waypoints |-> waypoints,
          startPose |-> pose]

\* a start that always begins with a transition
startedTransitioning(t, waypoints, pose) ==
    IF waypoints = <<>> THEN t
    ELSE [currentIndex |-> 0, phase |-> "TRANSITIONING", elapsedInPhase |-> 0,
          active |-> TRUE, waypoints |-> waypoints, startPose |-> pose]

\* the state start leaves: an empty list is rejected, a list of one waypoint
\* holds at once
started(t, waypoints, pose) ==
    IF waypoints = <<>> THEN t
    ELSE [currentIndex |-> 0,
          phase |-> IF Len(waypoints) = 1 THEN "HOLDING" ELSE "TRANSITIONING",
          elapsedInPhase |-> 0, active |-> TRUE, waypoints |-> waypoints,
          startPose |-> pose]

\* a tick whose transition expires straight into the next waypoint
tickedWithoutHolding(t, pose, deltaSeconds) ==
    LET d == Max(deltaSeconds, 0)
        e == t.elapsedInPhase + d
        w == waypointAt(t)
    IN  IF ~t.active \/ d = 0 THEN [tour |-> t, pose |-> pose, dropped |-> 0]
        ELSE IF t.phase = "TRANSITIONING" /\ e < w.transitionDurationSeconds
        THEN [tour |-> [t EXCEPT !.elapsedInPhase = e],
              pose |-> interpolate(previousPose(t), poseOf(w), e,
                                   w.transitionDurationSeconds),
              dropped |-> 0]
        ELSE IF t.phase = "TRANSITIONING"
        THEN [tour |-> advance([t EXCEPT !.elapsedInPhase = e]),
              pose |-> poseOf(w), dropped |-> e - w.transitionDurationSeconds]
        ELSE IF e >= w.holdDurationSeconds
             THEN [tour |-> advance([t EXCEPT !.elapsedInPhase = e]),
                   pose |-> poseOf(w), dropped |-> e - w.holdDurationSeconds]
             ELSE [tour |-> [t EXCEPT !.elapsedInPhase = e], pose |-> poseOf(w),
                   dropped |-> 0]

\* tick: the tour state and the pose it returns, with the seconds dropped at
\* a phase change; one phase change at most per tick
ticked(t, pose, deltaSeconds) ==
    LET d == Max(deltaSeconds, 0)
        e == t.elapsedInPhase + d
        w == waypointAt(t)
    IN  IF ~t.active \/ d = 0 THEN [tour |-> t, pose |-> pose, dropped |-> 0]
        ELSE IF t.phase = "TRANSITIONING"
        THEN IF e >= w.transitionDurationSeconds
             THEN [tour |-> [t EXCEPT !.phase = "HOLDING", !.elapsedInPhase = 0],
                   pose |-> poseOf(w),
                   dropped |-> e - w.transitionDurationSeconds]
             ELSE [tour |-> [t EXCEPT !.elapsedInPhase = e],
                   pose |-> interpolate(previousPose(t), poseOf(w), e,
                                        w.transitionDurationSeconds),
                   dropped |-> 0]
        ELSE IF e >= w.holdDurationSeconds
             THEN [tour |-> advance([t EXCEPT !.elapsedInPhase = e]),
                   pose |-> poseOf(w), dropped |-> e - w.holdDurationSeconds]
             ELSE [tour |-> [t EXCEPT !.elapsedInPhase = e], pose |-> poseOf(w),
                   dropped |-> 0]

\* a stop that puts the camera back where the tour began
poseAfterStopSnapping(t, pose) == IF t.active THEN t.startPose ELSE pose

\* stop leaves the pose alone
poseAfterStop(t, pose) == pose

\* stop: at rest and inactive, the rest of the state as it was
stopped(t) == [t EXCEPT !.phase = "IDLE", !.active = FALSE]

start(waypoints) ==
    /\ sceneShown(isClient, hasError, webglCapabilities)
    /\ waypoints # <<>> => tourLog.tours < MaxTours
    /\ tour' = started(tour, waypoints, cameraPose)
    /\ tourLog' = IF waypoints = <<>> THEN tourLog
                  ELSE [NoTourLog EXCEPT !.visited = <<0>>,
                                         !.tours = tourLog.tours + 1]
    /\ lastEvent' = IF waypoints = <<>> THEN "InvalidWaypointList" ELSE "start"
    /\ UNCHANGED <<pageVars, latticeVars, hostVars, frameVars, cameraPose>>

tick(deltaSeconds) ==
    /\ sceneShown(isClient, hasError, webglCapabilities)
    /\ LET r == ticked(tour, cameraPose, deltaSeconds)
       IN  /\ tour' = r.tour
           /\ cameraPose' = r.pose
           /\ tourLog' =
                 IF tour.active /\ deltaSeconds > 0
                 THEN [tourLog EXCEPT
                         !.ticked = @ + deltaSeconds,
                         !.dropped = @ + r.dropped,
                         !.visited = IF r.tour.currentIndex = tour.currentIndex
                                     THEN @ ELSE Append(@, r.tour.currentIndex)]
                 ELSE tourLog
    /\ lastEvent' = "tick"
    /\ UNCHANGED <<pageVars, latticeVars, hostVars, frameVars>>

stop ==
    /\ sceneShown(isClient, hasError, webglCapabilities)
    /\ tour' = stopped(tour)
    /\ cameraPose' = poseAfterStop(tour, cameraPose)
    /\ lastEvent' = "stop"
    /\ UNCHANGED <<pageVars, latticeVars, hostVars, frameVars, tourLog>>

skip ==
    /\ sceneShown(isClient, hasError, webglCapabilities)
    /\ tour' = IF tour.active THEN advance(tour) ELSE tour
    /\ tourLog' =
          IF tour.active
          THEN [tourLog EXCEPT
                  !.skipped = TRUE,
                  !.visited = IF tour'.currentIndex = tour.currentIndex
                              THEN @ ELSE Append(@, tour'.currentIndex)]
          ELSE tourLog
    /\ lastEvent' = "skip"
    /\ UNCHANGED <<pageVars, latticeVars, hostVars, frameVars, cameraPose>>

\* the scene is shown on a host of some width and no tour has run yet
InitTour ==
    /\ isClient = TRUE
    /\ hasError = FALSE
    /\ isMobile = FALSE
    /\ webglCapabilities = [webgl |-> TRUE, maxTextureSize |-> 8192,
                            maxRenderbufferSize |-> 1024,
                            extensions |-> {DepthTexture}]
    /\ qualityLevel = DefaultQualityLevel
    /\ override = NoOverride
    /\ currentView = DefaultView
    /\ latticeParams = [targetTubeCount |-> TargetTubeCount,
                        rodStride |-> RodStride,
                        maxRodCount |-> MaxRodCount]
    /\ coreMounted = FALSE
    /\ pressureTubes = <<>>
    /\ controlRods = <<>>
    /\ firstLattice = null
    /\ lastEvent = "init"
    /\ devicePixelRatio = 100
    /\ innerWidth \in InnerWidths
    /\ enableShadows = TRUE
    /\ tour = NoTour
    /\ cameraPose = StartPose
    /\ tourLog = NoTourLog
    /\ isPlaying = TRUE
    /\ clockElapsed = 0
    /\ plantRotation = 0
    /\ coreScale = 0
    /\ emissive = <<>>

NextTour ==
    \/ \E waypoints \in WaypointLists : start(waypoints)
    \/ \E deltaSeconds \in Deltas : tick(deltaSeconds)
    \/ stop
    \/ skip

SpecTour == InitTour /\ [][NextTour]_vars

\* one tour that nothing stops: start from rest only, then ticks and skips;
\* the frame loop keeps delivering ticks with a positive delta
NextTourRun ==
    \/ \E waypoints \in WaypointLists :
          tour.phase = "IDLE" /\ start(waypoints)
    \/ \E deltaSeconds \in Deltas : tick(deltaSeconds)
    \/ skip

SpecTourRun ==
    /\ InitTour
    /\ [][NextTourRun]_vars
    /\ WF_vars(\E deltaSeconds \in Deltas : deltaSeconds > 0 /\ tick(deltaSeconds))

(***************************************************************************)
(* The frame loop: the useFrame callbacks of NuclearPlant and ReactorCore. *)
(* The clock counts units of pi/4 seconds, so that elapsedTime * 0.5 moves *)
(* by pi/8 per unit and elapsedTime * 2 by pi/2; sines are read from a     *)
(* table at multiples of pi/8, and the phase offset index * 0.1 of a mesh  *)
(* is taken to the nearest lower multiple of pi/8 (0.4 for 0.3927).        *)
(***************************************************************************)
\* clock time after which no further frame is modelled
MaxElapsedTime == 6

\* delta of a frame, in clock units
FrameDeltas == {1, 2}

\* Math.sin at the multiples of pi/8, in thousandths
SinTable == <<0, 383, 707, 924, 1000, 924, 707, 383,
              0, -383, -707, -924, -1000, -924, -707, -383>>

sin(eighths) == SinTable[(eighths % 16) + 1]

\* the scale prop NuclearPlant passes to ReactorCore, 1.2
scaleProp == 1200000

\* the registered meshes followed here, by their index in meshRefs: the
\* vessel (material default 1), the moderator (0.12) and a tube (flux * 0.15)
MeshIndices == {0, 1, 40}

\* the emissiveIntensity the JSX gives the meshes of a freshly mounted core
mountedEmissive(tubes) ==
    [index \in MeshIndices |->
        IF index = 0 THEN 1000000
        ELSE IF index = 1 THEN 120000
        ELSE IF Len(tubes) > 0 THEN (tubes[1].flux * 150000) \div FluxOne ELSE 0]

\* NuclearPlant renders its group in every view but the control room
plantGroupMounted(view) == view # "control-room"

\* variant of plantRotationAfter: isPlaying not tested
plantRotationAlways(playing, mounted, rotation, delta) ==
    IF mounted THEN rotation + delta ELSE rotation

\* NuclearPlant useFrame: rotation.y += delta * 0.05
plantRotationAfter(playing, mounted, rotation, delta) ==
    IF playing /\ mounted THEN rotation + delta ELSE rotation

\* ReactorCore useFrame: scale.setScalar(scale * pulse),
\* pulse = Math.sin(elapsedTime * 0.5) * 0.005 + 1
coreScaleAfter(playing, mounted, scale, elapsedTime) ==
    IF playing /\ mounted
    THEN scaleProp + ((scaleProp \div 1000) * 5 * sin(elapsedTime)) \div 1000
    ELSE scale

\* ReactorCore useFrame: emissiveIntensity = 0.1 + sin(elapsedTime * 2 + index * 0.1) * 0.05
emissiveAfter(playing, mounted, intensities, elapsedTime) ==
    IF playing /\ mounted
    THEN [index \in DOMAIN intensities |->
             100000 + 50 * sin(4 * elapsedTime + index \div 4)]
    ELSE intensities

\* one frame: the clock advances and both useFrame callbacks run
frame(delta) ==
    /\ sceneShown(isClient, hasError, webglCapabilities)
    /\ clockElapsed < MaxElapsedTime
    /\ clockElapsed' = clockElapsed + delta
    /\ plantRotation' = plantRotationAfter(isPlaying, plantGroupMounted(currentView),
                                           plantRotation, delta)
    /\ coreScale' = coreScaleAfter(isPlaying, coreMounted, coreScale, clockElapsed')
    /\ emissive' = emissiveAfter(isPlaying, coreMounted, emissive, clockElapsed')
    /\ lastEvent' = "frame"
    /\ UNCHANGED <<pageVars, latticeVars, hostVars, tourVars, isPlaying>>

\* the Play / Pause button
togglePlayback ==
    /\ sceneShown(isClient, hasError, webglCapabilities)
    /\ isPlaying' = ~isPlaying
    /\ lastEvent' = "togglePlayback"
    /\ UNCHANGED <<pageVars, latticeVars, hostVars, tourVars, clockElapsed,
                   plantRotation, coreScale, emissive>>

\* the scene is shown in one of the views, playing or paused, and the clock
\* starts; in the reactor view the core has just been mounted
InitFrame ==
    /\ isClient = TRUE
    /\ hasError = FALSE
    /\ isMobile = FALSE
    /\ webglCapabilities = [webgl |-> TRUE, maxTextureSize |-> 8192,
                            maxRenderbufferSize |-> 1024,
                            extensions |-> {DepthTexture}]
    /\ qualityLevel = DefaultQualityLevel
    /\ override = NoOverride
    /\ currentView \in Views
    /\ latticeParams = [targetTubeCount |-> TargetTubeCount,
                        rodStride |-> RodStride,
                        maxRodCount |-> MaxRodCount]
    /\ coreMounted = (currentView = "reactor")
    /\ pressureTubes = IF coreMounted THEN pressureTubesOf(TargetTubeCount) ELSE <<>>
    /\ controlRods = IF coreMounted
                     THEN controlRodsOf(pressureTubes, RodStride, MaxRodCount)
                     ELSE <<>>
    /\ firstLattice = IF coreMounted
                      THEN [pressureTubes |-> pressureTubes,
                            controlRods |-> controlRods,
                            qualityLevel |-> qualityLevel, generations |-> 1]
                      ELSE null
    /\ lastEvent = "init"
    /\ devicePixelRatio = 100
    /\ innerWidth = 1280
    /\ enableShadows = TRUE
    /\ tour = NoTour
    /\ cameraPose = StartPose
    /\ tourLog = NoTourLog
    /\ isPlaying \in BOOLEAN
    /\ clockElapsed = 0
    /\ plantRotation = 0
    /\ coreScale = IF coreMounted THEN scaleProp ELSE 0
    /\ emissive = IF coreMounted THEN mountedEmissive(pressureTubes) ELSE <<>>

NextFrame ==
    \/ \E delta \in FrameDeltas : frame(delta)
    \/ togglePlayback

SpecFrame == InitFrame /\ [][NextFrame]_vars

(***************************************************************************)
(* The properties.                                                         *)
(***************************************************************************)
CeilDiv(a, b) == (a + b - 1) \div b

\* C1: with the plant's documented parameters (451 tubes, stride 12, cap 37)
\* a mounted reactor core holds exactly 451 pressure tubes and exactly 37
\* control rods.
C1_DocumentedCounts ==
    (coreMounted /\ latticeParams = [targetTubeCount |-> 451, rodStride |-> 12,
                                     maxRodCount |-> 37])
        => Len(pressureTubes) = 451 /\ Len(controlRods) = 37

C1_Witness ==
    /\ coreMounted
    /\ latticeParams = [targetTubeCount |-> 451, rodStride |-> 12, maxRodCount |-> 37]
    /\ Len(pressureTubes) = 451
    /\ Len(controlRods) = 37
    /\ controlRods[37].id = 432

\* C2: for every targetTubeCount from 0 to the sum of the per-row table the
\* generator returns exactly targetTubeCount nodes, the node at position i
\* having id i.
C2_ExactCountSequentialIds ==
    (coreMounted /\ latticeParams.targetTubeCount \in 0 .. ProfileSum)
        => /\ Len(pressureTubes) = latticeParams.targetTubeCount
           /\ \A i \in 1 .. Len(pressureTubes) : pressureTubes[i].id = i - 1

\* C3: for every targetTubeCount, rodStride >= 1 and maxRodCount >= 0 the
\* number of control rods is min(maxRodCount, ceil(targetTubeCount / rodStride)),
\* and the rods are a subsequence of the tube list in strictly increasing id
\* order: every rod is a tube of the list, none is selected twice.
C3_RodCountByTarget ==
    coreMounted
        => /\ Len(controlRods) =
                  Min(latticeParams.maxRodCount,
                      CeilDiv(latticeParams.targetTubeCount, latticeParams.rodStride))
           /\ \A k \in 1 .. Len(controlRods) :
                  /\ controlRods[k].id + 1 \in 1 .. Len(pressureTubes)
                  /\ pressureTubes[controlRods[k].id + 1] = controlRods[k]
           /\ \A k \in 1 .. Len(controlRods) - 1 :
                  controlRods[k].id < controlRods[k + 1].id

\* C4: every generated node has a flux in [0, 1] and a non-negative
\* temperature, the flux being max(0, 1 - d / 15) and the temperature
\* 280 + (15 - d) * 12 for the node's distance d from the lattice centre.
C4_FluxAndTemperatureInRange ==
    \A i \in 1 .. Len(pressureTubes) :
        LET tube == pressureTubes[i]
            d == distanceFromCenter(tube.position.x, tube.position.z)
        IN  /\ tube.flux >= 0
            /\ tube.flux <= 15000
            /\ tube.temperature >= 0
            /\ tube.flux = Max(0, 15000 - d)
            /\ tube.temperature = 280000 + (15000 - d) * 12

C4_Witness ==
    /\ coreMounted
    /\ \E i \in 1 .. Len(pressureTubes) : pressureTubes[i].flux = FluxOne
    /\ \E i \in 1 .. Len(pressureTubes) :
           /\ pressureTubes[i].flux > 0
           /\ pressureTubes[i].flux < FluxOne \div 2
    /\ Len(pressureTubes) = Len(allTubes)

C6_TextureSizeAloneDecides ==
    (lastEvent = "detect" /\ override = NoOverride)
        => LET size == webglCapabilities.maxTextureSize
           IN  /\ size < 2048 => qualityLevel = 1
               /\ (2048 <= size /\ size < 4096) => qualityLevel = 2
               /\ size >= 4096 => qualityLevel \in {3, 4}

\* C6, amended: with no manual override, after capability detection the level
\* is LOW on a mobile host whatever maxTextureSize is; on any other host it
\* is LOW below 2048, MEDIUM from 2048 to 4095, and the prior level, left
\* unchanged, from 4096 on.
C6_DetectionStep ==
    (lastEvent' = "detect" /\ override' = NoOverride)
        => LET size == webglCapabilities'.maxTextureSize
           IN  /\ isMobile => qualityLevel' = 1
               /\ (~isMobile /\ size < 2048) => qualityLevel' = 1
               /\ (~isMobile /\ 2048 <= size /\ size < 4096) => qualityLevel' = 2
               /\ (~isMobile /\ size >= 4096) => qualityLevel' = qualityLevel

\* C6, amended, over every step of every behaviour
C6_LevelAfterDetection == [][C6_DetectionStep]_vars

C6_Witness ==
    /\ lastEvent = "detect"
    /\ override = NoOverride
    /\ ~isMobile
    /\ webglCapabilities.maxTextureSize = 8192
    /\ qualityLevel = 2

\* C7: once the user has set a quality override, the quality level in effect
\* equals the override after every later event, a capability detection
\* included.
C7_OverrideWins == override # NoOverride => qualityLevel = override

\* C8, as claimed: in every reachable state with a capabilities snapshot, a
\* maxTextureSize of zero included, the shadow map size is at most
\* maxTextureSize / 2.
C8_ShadowAtMostHalfTexture ==
    webglCapabilities # null => shadowMapSize <= webglCapabilities.maxTextureSize

\* C8, amended: in every reachable state whose capabilities snapshot has a
\* maxTextureSize other than zero, the shadow map size is at most
\* maxTextureSize / 2, for every quality tier.
C8_ShadowAtMostHalfNonZeroTexture ==
    (webglCapabilities # null /\ webglCapabilities.maxTextureSize # 0)
        => \A level \in QualityLevels :
               shadowMapSizeOf(level, webglCapabilities)
                   <= webglCapabilities.maxTextureSize

C8_Witness ==
    /\ webglCapabilities # null
    /\ webglCapabilities.maxTextureSize = 1024
    /\ qualityLevel = 4
    /\ shadowMapSize = 1024

\* C9: a maxTextureSize that is zero or negative gives the LOW-tier default
\* shadow map size 512, for every quality level.
C9_NonPositiveTextureGivesDefault ==
    (webglCapabilities # null /\ webglCapabilities.maxTextureSize <= 0)
        => \A level \in QualityLevels :
               shadowMapSizeOf(level, webglCapabilities) = 2 * 512

\* C10: for every quality level and every positive maxTextureSize the shadow
\* map size is min(tierBaseSize(level), maxTextureSize / 2), tierBaseSize
\* being 512 for LOW, 1024 for MEDIUM and 2048 for HIGH and ULTRA.
C10_ShadowIsMinOfTierAndHalf ==
    (webglCapabilities # null /\ webglCapabilities.maxTextureSize > 0)
        => LET tierBaseSize == [level \in QualityLevels |->
                                    CASE level = 1 -> 512
                                      [] level = 2 -> 1024
                                      [] level = 3 -> 2048
                                      [] level = 4 -> 2048]
           IN  shadowMapSize = Min(2 * tierBaseSize[qualityLevel],
                                   webglCapabilities.maxTextureSize)

C10_Witness ==
    /\ webglCapabilities # null
    /\ webglCapabilities.maxTextureSize = 3000
    /\ qualityLevel = 2
    /\ shadowMapSize = 2 * 1024

\* C11: for every quality level and every device pixel ratio, the pixel ratio
\* the Canvas gets is min(2 if the level is ULTRA else 1, devicePixelRatio);
\* so it never exceeds the device pixel ratio, never exceeds 1 below ULTRA
\* and never exceeds 2.
C11_PixelRatioIsMinOfTierAndDevice ==
    isClient
        => /\ pixelRatio = Min(IF qualityLevel = 4 THEN 200 ELSE 100, devicePixelRatio)
           /\ pixelRatio <= devicePixelRatio
           /\ qualityLevel < 4 => pixelRatio <= 100
           /\ pixelRatio <= 200

C11_Witness ==
    /\ presentation = "scene"
    /\ qualityLevel = 4
    /\ devicePixelRatio = 150
    /\ pixelRatio = 150

\* C12: antialiasing is enabled exactly when the quality level is at least
\* MEDIUM and maxRenderbufferSize is at least 1024; it is off at LOW and
\* whenever maxRenderbufferSize is below 1024 or unknown.
C12_AntialiasFromMediumAndRenderbuffer ==
    /\ webglCapabilities = null => ~antialias
    /\ webglCapabilities # null
           => /\ antialias <=> (qualityLevel \in {2, 3, 4}
                                /\ ~(webglCapabilities.maxRenderbufferSize < 1024))
              /\ qualityLevel = 1 => ~antialias
              /\ webglCapabilities.maxRenderbufferSize < 1024 => ~antialias

C12_Witness ==
    /\ presentation = "scene"
    /\ qualityLevel = 2
    /\ webglCapabilities.maxRenderbufferSize = 1024
    /\ antialias

\* C13: shadows are enabled exactly when the user's shadow preference is on
\* and the extensions contain the depth-texture extension, and no shadow
\* casting is configured on the scene when either is missing.
C13_ShadowsNeedPreferenceAndExtension ==
    presentation = "scene"
        => LET wanted == enableShadows
                         /\ DepthTexture \in webglCapabilities.extensions
           IN  /\ canvasShadows(enableShadows, webglCapabilities) <=> wanted
               /\ ~wanted => ~lightCastShadow(enableShadows)

\* C14, as claimed: when the snapshot reports basic rendering unsupported, or
\* there is no snapshot, the page shows the fallback view and no Canvas; the
\* Canvas is mounted only with a snapshot whose webgl is true.
C14_FallbackWithoutContext ==
    /\ (webglCapabilities = null \/ ~webglCapabilities.webgl)
           => presentation = "fallback"
    /\ presentation = "scene" => (webglCapabilities # null /\ webglCapabilities.webgl)

\* C14, amended: when the snapshot reports basic rendering unsupported, or
\* there is no snapshot, the page mounts no Canvas, and it shows the fallback
\* view once the client initialisation has succeeded (the loading screen
\* before that and after an initialisation error); the Canvas is mounted only
\* with a snapshot whose webgl is true.
C14_NoCanvasWithoutContext ==
    /\ (webglCapabilities = null \/ ~webglCapabilities.webgl)
           => /\ presentation # "scene"
              /\ (isClient /\ ~hasError) => presentation = "fallback"
              /\ ~(isClient /\ ~hasError) => presentation = "loading"
    /\ presentation = "scene" => (webglCapabilities # null /\ webglCapabilities.webgl)

C14_Witness ==
    /\ isClient
    /\ ~hasError
    /\ webglCapabilities # null
    /\ ~webglCapabilities.webgl
    /\ presentation = "fallback"

\* C17: the lattice and the control-rod set are computed once and then
\* reused: while targetTubeCount, rodStride and maxRodCount stay the same (they
\* never change in a run), no sequence of quality-level changes and view
\* switches computes them a second time.
C17_LatticeComputedOnce ==
    [][(firstLattice # null /\ latticeParams' = latticeParams)
           => (firstLattice' # null
               /\ firstLattice'.generations = firstLattice.generations)]_vars

\* C15: while a tour is active the free-orbit camera input is disabled, on a
\* viewport of any width (orbit enabled implies no active tour).
C15_NoOrbitDuringTour == tour.active => ~isFreeOrbitEnabled

\* a tour is running on a viewport wide enough for orbit input
C15_Witness ==
    /\ tour.active
    /\ tour.phase = "TRANSITIONING"
    /\ innerWidth >= 768
    /\ ~isFreeOrbitEnabled

\* C16 as claimed: every step that ends a tour (the tick that reaches
\* FINISHED, a skip past the last waypoint, or stop) leaves free-orbit input
\* enabled, whatever the viewport width.
C16_OrbitBackAfterTour ==
    [][(tour.active /\ ~tour'.active) => isFreeOrbitEnabled']_vars

\* C16 as amended: a step that ends a tour leaves free-orbit input enabled
\* exactly on viewports at least 768 pixels wide; on narrower ones it stays
\* disabled, as it was before the tour.
C16_OrbitBackOnWideViewports ==
    [][(tour.active /\ ~tour'.active)
          => (isFreeOrbitEnabled' <=> innerWidth' >= 768)]_vars

\* a tour ran to FINISHED and orbit input is enabled again
C16_Witness ==
    /\ tour.phase = "FINISHED"
    /\ ~tour.active
    /\ tourLog.visited = <<0, 1, 2>>
    /\ isFreeOrbitEnabled

\* C18: a started tour that keeps receiving ticks with a positive delta and
\* is never stopped reaches FINISHED with active = false; until then
\* currentIndex stays within [0, length) and takes the indices in list order.
C18_TourFinishesInOrder ==
    /\ [](tour.active => tour.currentIndex \in 0..(Len(tour.waypoints) - 1))
    /\ [](tour.active
            => tourLog.visited = [i \in 1..(tour.currentIndex + 1) |-> i - 1])
    /\ (tour.active
          ~> (/\ tour.phase = "FINISHED"
              /\ ~tour.active
              /\ tourLog.visited = [i \in 1..Len(tour.waypoints) |-> i - 1]))

\* a tour of three waypoints finished by ticks alone
C18_Witness ==
    /\ tour.phase = "FINISHED"
    /\ ~tour.active
    /\ ~tourLog.skipped
    /\ Len(tour.waypoints) = 3
    /\ tourLog.visited = <<0, 1, 2>>

\* the time of the first waypoint plus an epsilon of one unit, which is
\* shorter than every second transition
firstWaypointTime(t) ==
    t.waypoints[1].transitionDurationSeconds + t.waypoints[1].holdDurationSeconds + 1

\* C19 as claimed: in a tour of three waypoints, once the ticks since start
\* total transitionDuration[0] + holdDuration[0] + epsilon, however they are
\* cut (one tick of that size included), the tour is TRANSITIONING at index 1.
C19_BoundaryAfterFirstWaypoint ==
    (/\ tour.active
     /\ Len(tour.waypoints) = 3
     /\ ~tourLog.skipped
     /\ tourLog.ticked = firstWaypointTime(tour))
        => (tour.currentIndex = 1 /\ tour.phase = "TRANSITIONING")

\* C19 as amended: the same, for ticks none of which runs past the end of
\* the phase it falls in (no elapsed time is dropped at a phase change).
C19_BoundaryWhenNoTickOvershoots ==
    (/\ tour.active
     /\ Len(tour.waypoints) = 3
     /\ ~tourLog.skipped
     /\ tourLog.dropped = 0
     /\ tourLog.ticked = firstWaypointTime(tour))
        => (tour.currentIndex = 1 /\ tour.phase = "TRANSITIONING")

\* ticks that end each phase exactly have brought a tour of three waypoints
\* one unit into its second transition
C19_Witness ==
    /\ tour.active
    /\ Len(tour.waypoints) = 3
    /\ ~tourLog.skipped
    /\ tourLog.dropped = 0
    /\ tourLog.ticked = firstWaypointTime(tour)
    /\ tour.currentIndex = 1
    /\ tour.elapsedInPhase = 1

\* C20: stop, in any tour state, leaves phase = IDLE and active = false and
\* does not move the camera pose.
C20_StopKeepsPose ==
    [][lastEvent' = "stop"
          => (tour'.phase = "IDLE" /\ ~tour'.active /\ cameraPose' = cameraPose)]_vars

\* a tour was stopped in the middle of its first transition: the pose is
\* neither the pose at start nor a waypoint
C20_Witness ==
    /\ lastEvent = "stop"
    /\ tour.phase = "IDLE"
    /\ tour.currentIndex = 0
    /\ tour.elapsedInPhase > 0
    /\ tour.waypoints # <<>>
    /\ cameraPose # tour.startPose
    /\ \A i \in 1..Len(tour.waypoints) : cameraPose # poseOf(tour.waypoints[i])

\* C21: start with an empty waypoint list is rejected with
\* InvalidWaypointList and changes neither the tour state (currentIndex,
\* phase, elapsedInPhase, active, waypoints) nor the free-orbit flag, from
\* every state, a running tour included.
C21_EmptyListRejected ==
    [][lastEvent' = "InvalidWaypointList"
          => (tour' = tour /\ isFreeOrbitEnabled' = isFreeOrbitEnabled)]_vars

\* an empty list was refused while a tour was part-way through a transition
C21_Witness ==
    /\ lastEvent = "InvalidWaypointList"
    /\ tour.active
    /\ tour.phase = "TRANSITIONING"
    /\ tour.elapsedInPhase > 0

\* C24: a tour of one waypoint is HOLDING at index 0 right after start, is
\* never TRANSITIONING, and a tick moves it to FINISHED exactly when the
\* elapsed hold time reaches the waypoint's holdDurationSeconds.
C24_SingleWaypointHoldsThenFinishes ==
    /\ [](Len(tour.waypoints) = 1
            => (tour.phase # "TRANSITIONING" /\ tour.currentIndex = 0))
    /\ [][(lastEvent' = "start" /\ Len(tour'.waypoints) = 1)
             => (tour'.phase = "HOLDING" /\ tour'.active
                 /\ tour'.elapsedInPhase = 0)]_vars
    /\ [][(tour.active /\ Len(tour.waypoints) = 1 /\ lastEvent' = "tick")
             => (tour'.phase = "FINISHED"
                   <=> tour.elapsedInPhase + (tourLog'.ticked - tourLog.ticked)
                          >= tour.waypoints[1].holdDurationSeconds)]_vars

\* a tour of one waypoint held over more than one tick and then finished
C24_Witness ==
    /\ Len(tour.waypoints) = 1
    /\ tour.phase = "FINISHED"
    /\ ~tour.active
    /\ ~tourLog.skipped
    /\ tourLog.dropped = 0
    /\ tourLog.ticked = tour.waypoints[1].holdDurationSeconds
    /\ tourLog.visited = <<0>>

\* the tubes of a list that lie in generated row r
tubesInRow(tubes, r) ==
    Cardinality({i \in 1 .. Len(tubes) : tubes[i].position.z = 2 * r - (rows - 1)})

\* C22: the generated rows form a symmetric diamond: the first and the last
\* generated row hold 1 tube, the counts do not fall before the middle row,
\* row r and row R-1-r hold the same count, and the rows are centred by the
\* offset (r - (R-1)/2) * spacing (every tube lies in one of the R rows).
C22_SymmetricDiamond ==
    (coreMounted /\ latticeParams.targetTubeCount > ProfileSum)
        => /\ \A i \in 1 .. Len(pressureTubes) :
                 \E r \in 0 .. rows - 1 :
                    pressureTubes[i].position.z = 2 * r - (rows - 1)
           /\ tubesInRow(pressureTubes, 0) = 1
           /\ tubesInRow(pressureTubes, rows - 1) = 1
           /\ \A r \in 0 .. rows - 1 :
                 tubesInRow(pressureTubes, r) = tubesInRow(pressureTubes, rows - 1 - r)
           /\ \A r \in 1 .. (rows - 1) \div 2 :
                 tubesInRow(pressureTubes, r - 1) <= tubesInRow(pressureTubes, r)

\* the cells (row, column) of the generated rows
Cells ==
    {cell \in (0 .. rows - 1) \X (0 .. ProfileSum) : cell[2] < numTubesOf(cell[1])}

\* the number of cells in the rows before row r
RECURSIVE cellsBefore(_)
cellsBefore(r) == IF r = 0 THEN 0 ELSE cellsBefore(r - 1) + numTubesOf(r - 1)

\* the place of each row's first cell in row-major order, counted from 0
RowStarts == [r \in 0 .. rows - 1 |-> cellsBefore(r)]

\* C23: the returned list is the first targetTubeCount nodes of the
\* row-major generation sequence (all of them when there are no more): the
\* cell (row, column) that is i-th in row-major order is at position i of
\* the list, with its row offset, its column offset and the id i, whenever
\* i is below targetTubeCount, and the list holds nothing else.
C23_TruncationKeepsPrefix ==
    coreMounted
        => /\ Len(pressureTubes)
                 = Min(latticeParams.targetTubeCount, Cardinality(Cells))
           /\ \A cell \in Cells :
                 LET i == RowStarts[cell[1]] + cell[2]
                 IN  i < Len(pressureTubes)
                        => /\ pressureTubes[i + 1].id = i
                           /\ pressureTubes[i + 1].position.z
                                 = 2 * cell[1] - (rows - 1)
                           /\ pressureTubes[i + 1].position.x
                                 = 2 * cell[2] - (numTubesOf(cell[1]) - 1)

\* the documented 451 tubes, cut from a longer generation sequence
C23_Witness ==
    /\ coreMounted
    /\ latticeParams.targetTubeCount = TargetTubeCount
    /\ Len(pressureTubes) = TargetTubeCount
    /\ Len(pressureTubes) < Cardinality(Cells)
    /\ pressureTubes[Len(pressureTubes)].id = TargetTubeCount - 1

\* C25: with the capabilities (positive maxTextureSize) and the device pixel
\* ratio fixed, a step that does not lower the quality level lowers neither
\* shadowMapSize nor pixelRatio and does not turn antialiasing off.
C25_ParametersMonotoneInLevel ==
    [][(/\ webglCapabilities # null
        /\ webglCapabilities' = webglCapabilities
        /\ webglCapabilities.maxTextureSize > 0
        /\ isClient /\ isClient'
        /\ devicePixelRatio' = devicePixelRatio
        /\ qualityLevel' >= qualityLevel)
          => (/\ shadowMapSize' >= shadowMapSize
              /\ pixelRatio' >= pixelRatio
              /\ (antialias => antialias'))]_vars

\* the user has raised the level to ULTRA on a host where all three
\* parameters are above their LOW values
C25_Witness ==
    /\ lastEvent = "setQualityLevel"
    /\ qualityLevel = 4
    /\ webglCapabilities # null
    /\ webglCapabilities.maxTextureSize > 0
    /\ shadowMapSize > shadowMapSizeOf(1, webglCapabilities)
    /\ pixelRatio > pixelRatioOf(isClient, 1, devicePixelRatio)
    /\ antialias /\ ~antialiasOf(1, webglCapabilities)

\* C26: while playback is paused a frame changes nothing: the rotation of
\* the plant group, the scale of the reactor core and the emissive intensity
\* of every registered mesh are after the frame what they were before it.
C26_PausedFrameChangesNothing ==
    [][(lastEvent' = "frame" /\ ~isPlaying)
          => (/\ plantRotation' = plantRotation
              /\ coreScale' = coreScale
              /\ emissive' = emissive)]_vars

\* frames have run while paused, after frames that turned the plant, pulsed
\* the core and overwrote the tube's flux-derived intensity
C26_Witness ==
    /\ lastEvent = "frame"
    /\ ~isPlaying
    /\ coreMounted
    /\ plantRotation > 0
    /\ clockElapsed > plantRotation + 1
    /\ coreScale # scaleProp
    /\ emissive # mountedEmissive(pressureTubes)

====
